---- MODULE Spec2Model ----
(***************************************************************************)
(* Model of the gate-pass application (src/app.py): the OTP-gated two-     *)
(* phase submission handled by the /student route, the /login and /logout  *)
(* routes, the cookie-backed Flask session of each browser and the         *)
(* gate_pass_requests table.                                               *)
(*                                                                         *)
(* Time is counted in minutes.  Python strings that are compared by the    *)
(* code (the submitted OTP and str(otp)) are sequences of one-character    *)
(* strings; form fields that are only copied are plain TLA+ strings.       *)
(*                                                                         *)
(* The application is run without debug mode (app.run(host, port)), so a   *)
(* handler that raises still has its session changes saved with the error  *)
(* response: Flask saves the session while finalising every response.      *)
(***************************************************************************)
EXTENDS Integers, Sequences, FiniteSets, TLC

(* ------------------------------ bounds --------------------------------- *)
MaxTime == 6
MaxStore == 2
MaxStarts == 2
MaxInflight == 2

(* ------------------------- program constants --------------------------- *)
OTP_TTL == 5
MinCode == 100000
MaxCode == 999999

(* The values random.randint(MinCode, MaxCode) is sampled at. *)
CodeSample == {c \in {MinCode, MaxCode} : MinCode <= c /\ c <= MaxCode}

(* Rows of the users table: id, name, role. *)
Users == {1, 2}
UserName(u) == <<"asha", "ravi">>[u]
UserRole(u) == "student"

(* Browsers, each holding one session cookie. *)
Clients == {"a", "b"}

(* ----------------------- Python values and strings --------------------- *)
DigitChars == <<"0", "1", "2", "3", "4", "5", "6", "7", "8", "9">>

RECURSIVE Str(_)
(* str(n) of a non-negative int: its decimal digits, most significant first *)
Str(n) == IF n < 10 THEN <<DigitChars[n + 1]>>
          ELSE Str(n \div 10) \o <<DigitChars[(n % 10) + 1]>>

(* What dict.get returns for a missing key; it is equal to no string. *)
None == <<"<None>">>

(* ------------------------- dict-like operations ------------------------ *)
Has(d, k) == k \in DOMAIN d
Get(d, k) == IF Has(d, k) THEN d[k] ELSE None
Pop(d, k) == [x \in DOMAIN d \ {k} |-> d[x]]
Put(d, k, v) == [x \in DOMAIN d \cup {k} |-> IF x = k THEN v ELSE d[x]]
EmptySession == [x \in {} |-> TRUE]

(* session.get("otp_phase"): only ever stored as True *)
OtpPhaseMut(s) == Has(s, "otp_phase") /\ s["otp_phase"] = TRUE /\ Has(s, "pending")
OtpPhase(s) == Has(s, "otp_phase") /\ s["otp_phase"] = TRUE

(* line 91 *)
LoggedInMut(s) == TRUE
LoggedIn(s) == Has(s, "user_id")

(* ------------------------------- forms --------------------------------- *)
PayloadForm(r) == [reason |-> r, out_date |-> "d1", out_time |-> "t1"]
PayloadFields == {"reason", "out_date", "out_time"}

Forms ==
    {PayloadForm("r1"), PayloadForm("r2")}
    \cup {[reason |-> "r2", out_date |-> "d2"]}
    \cup {[otp |-> Str(c)] : c \in CodeSample}
    \cup {[otp |-> <<"0">> \o Str(MinCode)], [otp |-> <<>>]}

(* --------------------------- the notifier ------------------------------ *)
(* send_sms: "no_provider" when twilio_client is None, otherwise the       *)
(* provider call either returns or raises; the exception is printed.       *)
TwilioResults == {"delivered", "raises"}
send_smsSwallowMut(configured, tw) ==
    IF ~configured THEN "no_provider"
    ELSE IF tw = "delivered" THEN "sent" ELSE "raise"
send_sms(configured, tw) ==
    IF ~configured THEN "no_provider"
    ELSE IF tw = "delivered" THEN "sent" ELSE "error_logged"

(* ------------------------ the /student handler ------------------------- *)
Resp(s, st, outcome, sms, started) ==
    [sess |-> s, store |-> st, outcome |-> outcome, sms |-> sms, started |-> started]

(* line 98 *)
IsExpired(t, s) == t > s["otp_expiry"]

(* line 100 *)
ExpiredSessionMut(s) == s
ExpiredSession(s) == Pop(s, "otp_phase")

(* line 103: a comparison of strings *)
OtpDiffersMut(form, s) ==
    LET v == Get(form, "otp") IN
    IF v # <<>> /\ Head(v) = "0" THEN Tail(v) # Str(s["otp"]) ELSE v # Str(s["otp"])
OtpDiffers(form, s) == Get(form, "otp") # Str(s["otp"])

(* lines 104-105: nothing but the flash *)
InvalidSessionMut(s) == Pop(s, "otp_phase")
InvalidSession(s) == s

(* lines 108-114 with the column defaults of lines 75 and 81; created_at   *)
(* (line 82) is not read by any property and is left out of the row        *)
NewRequest(st, u, data, t) ==
    [id |-> Len(st) + 1, student_id |-> u, student_name |-> UserName(u),
     reason |-> data["reason"], out_date |-> data["out_date"],
     out_time |-> data["out_time"], status |-> "Pending"]

(* lines 115-116 *)
PersistMut(st, req) == <<req>>
Persist(st, req) == Append(st, req)

(* lines 118-121 *)
VerifiedSession(s) ==
    Pop(Pop(Pop(Pop(s, "otp_phase"), "otp"), "otp_expiry"), "pending")

(* line 131 *)
OtpExpiryMut(t) == t + OTP_TTL + 1
OtpExpiry(t) == t + OTP_TTL

(* lines 129-131 *)
OtpSession(s, otp, t) ==
    Put(Put(Put(s, "otp", otp), "otp_phase", TRUE), "otp_expiry", OtpExpiry(t))

(* lines 132-136: request.form[k] raises for a missing k *)
FormComplete(form) == PayloadFields \subseteq DOMAIN form
PendingOf(form) == [k \in PayloadFields |-> form[k]]

(* lines 142-149: the page is rendered from the session and the table *)
PageSessionMut(s, t) ==
    IF OtpPhase(s) /\ IsExpired(t, s) THEN Pop(s, "otp_phase") ELSE s
PageSession(s, t) == s

Student(s, method, form, t, st, otp, configured, tw) ==
    IF ~LoggedIn(s)
    THEN Resp(s, st, "redirect_login", "not_called", 0)
    ELSE IF method = "POST" /\ OtpPhase(s)
    THEN IF IsExpired(t, s)
         THEN Resp(ExpiredSession(s), st, "expired", "not_called", 0)
         ELSE IF OtpDiffers(form, s)
         THEN Resp(InvalidSession(s), st, "invalid", "not_called", 0)
         ELSE IF ~Has(s, "pending")
         THEN Resp(s, st, "error500", "not_called", 0)
         ELSE Resp(VerifiedSession(s),
                   Persist(st, NewRequest(st, s["user_id"], s["pending"], t)),
                   "submitted", "not_called", 0)
    ELSE IF method = "POST"
    THEN LET s3 == OtpSession(s, otp, t) IN
         IF ~FormComplete(form)
         THEN Resp(s3, st, "badrequest400", "not_called", 1)
         ELSE LET s4 == Put(s3, "pending", PendingOf(form))
                  sms == send_sms(configured, tw)
              IN  IF sms = "raise"
                  THEN Resp(s4, st, "error500", sms, 1)
                  ELSE Resp(s4, st, "otp_sent", sms, 1)
    ELSE Resp(PageSession(s, t), st, "page", "not_called", 0)

(* --------------------------- /login, /logout --------------------------- *)
LoginSession(s, u) == Put(Put(s, "user_id", u), "role", UserRole(u))
LogoutSessionMut(s) == Pop(Pop(s, "user_id"), "role")
LogoutSession(s) == EmptySession

(* ------------------------------- state --------------------------------- *)
VARIABLES
    now,            \* datetime.utcnow(), in minutes
    twilio_client,  \* whether the provider is configured (lines 42-44)
    sess,           \* the session cookie each browser holds
    store,          \* the gate_pass_requests table, in insertion order
    inflight,       \* POSTs to /student sent but not yet handled, with the cookie they carry
    started,        \* how many times the SEND OTP block has run
    begun,          \* per browser: the payload fields passed to the SEND OTP run that
                    \* started the challenge now active, NoStart when none is active
    scen,           \* how far the requests so far have followed the scenario
    last            \* the request handled last and its response (for a logout,
                    \* otp is the code the session held)

vars == <<now, twilio_client, sess, store, inflight, started, begun, scen, last>>

NoForm == [otp |-> <<>>]
NoStart == [none |-> TRUE]
Passed(form) == [k \in PayloadFields \cap DOMAIN form |-> form[k]]

Op(op, c, method, form, outcome, sms, otp) ==
    [op |-> op, client |-> c, method |-> method, form |-> form,
     outcome |-> outcome, sms |-> sms, otp |-> otp]

(* --------------------- the scenario of the specification --------------- *)
(* Start at T0; correct code at T0+1; the same code at T0+2; start again   *)
(* at T0+3; a wrong code at T0+4; the correct code at T0+6.  T0 is 0.      *)
(* scen.step counts the requests that were the scenario's and answered as  *)
(* the scenario says; "diverged" marks a request of the scenario answered  *)
(* otherwise, "off" a run that made another request.                       *)
ScenarioTimes == <<0, 1, 2, 3, 4, 6>>
ScenOn(k, code) == [state |-> "on", step |-> k, code |-> code]
ScenOff == [state |-> "off", step |-> 0, code |-> 0]
ScenDiverged(k) == [state |-> "diverged", step |-> k, code |-> 0]

ScenInput(k, m, cookie, form, t) ==
    /\ t = ScenarioTimes[k]
    /\ Has(cookie, "user_id")
    /\ CASE k \in {1, 4} -> form = PayloadForm("r1")
         [] k \in {2, 3, 6} -> form = [otp |-> Str(m.code)]
         [] OTHER -> Has(form, "otp") /\ Len(form["otp"]) >= 6
                     /\ form["otp"] # Str(m.code)

ScenAnswer(k, st, r) ==
    CASE k \in {1, 4} -> r.outcome = "otp_sent" /\ OtpPhase(r.sess)
      [] k = 2 -> /\ r.outcome = "submitted"
                  /\ Len(r.store) = Len(st) + 1
                  /\ r.store[Len(r.store)].status = "Pending"
      [] k = 3 -> r.outcome # "submitted" /\ r.store = st /\ ~OtpPhase(r.sess)
      [] k = 5 -> r.outcome = "invalid" /\ OtpPhase(r.sess)
      [] OTHER -> r.outcome = "expired"

ScenNext(m, cookie, method, form, t, st, r) ==
    IF method = "GET" THEN m
    ELSE IF m.state = "on" /\ m.step < 6 /\ ScenInput(m.step + 1, m, cookie, form, t)
    THEN IF ScenAnswer(m.step + 1, st, r)
         THEN ScenOn(m.step + 1,
                     IF m.step + 1 \in {1, 4} THEN r.sess["otp"] ELSE m.code)
         ELSE ScenDiverged(m.step + 1)
    ELSE ScenOff

(* a login or a logout in the middle is not a request of the scenario *)
ScenKeep(m) == IF m.state = "on" /\ m.step = 0 THEN m ELSE ScenOff

InitWith(browsers, t0, providers) ==
    /\ now = t0
    /\ twilio_client \in providers
    /\ sess = [c \in browsers |-> EmptySession]
    /\ store = <<>>
    /\ inflight = [c \in browsers |-> <<>>]
    /\ started = 0
    /\ begun = [c \in browsers |-> NoStart]
    /\ scen = ScenOn(0, 0)
    /\ last = Op("init", "a", "GET", NoForm, "page", "not_called", 0)

(* one browser *)
Init == InitWith({"a"}, 0, BOOLEAN)

(* the same user may be logged in from two browsers *)
InitSessions == InitWith(Clients, MaxTime - 1, {FALSE})

(* The response carries Set-Cookie when the handler modified the session;  *)
(* flash() modifies it on each of these outcomes.                          *)
SetsCookie(r, cookie) ==
    r.sess # cookie \/ r.outcome \in {"expired", "invalid", "submitted", "otp_sent"}

(* The effect of handling one /student request that carried `cookie`. *)
Handled(c, cookie, method, form, otp, tw) ==
    LET r == Student(cookie, method, form, now, store, otp, twilio_client, tw) IN
    /\ Len(r.store) <= MaxStore
    /\ started + r.started <= MaxStarts
    /\ sess' = [sess EXCEPT ![c] = IF SetsCookie(r, cookie) THEN r.sess ELSE @]
    /\ store' = r.store
    /\ started' = started + r.started
    /\ begun' = [begun EXCEPT ![c] =
                     IF r.started = 1 THEN Passed(form)
                     ELSE IF OtpPhase(sess'[c]) THEN @ ELSE NoStart]
    /\ scen' = ScenNext(scen, cookie, method, form, now, store, r)
    /\ last' = Op("student", c, method, form, r.outcome, r.sms,
                  IF r.started = 1 THEN otp ELSE 0)
    /\ UNCHANGED <<now, twilio_client>>

(* A browser sends a request to /student and receives the response. *)
StudentReq(c, method, form, otp, tw) ==
    /\ Handled(c, sess[c], method, form, otp, tw)
    /\ UNCHANGED inflight

(* POST /login with the credentials of user u (pwOk: bcrypt.checkpw). *)
LoginReq(c, u, pwOk) ==
    /\ sess' = [sess EXCEPT ![c] = IF pwOk THEN LoginSession(@, u) ELSE @]
    /\ last' = Op("login", c, "POST", NoForm,
                  IF pwOk THEN "redirect_student" ELSE "invalid_credentials",
                  "not_called", 0)
    /\ scen' = ScenKeep(scen)
    /\ UNCHANGED <<now, twilio_client, store, inflight, started, begun>>

LogoutReq(c) ==
    /\ sess' = [sess EXCEPT ![c] = LogoutSession(@)]
    /\ begun' = [begun EXCEPT ![c] = NoStart]
    /\ scen' = ScenKeep(scen)
    /\ last' = Op("logout", c, "GET", NoForm, "redirect_login", "not_called",
                  IF Has(sess[c], "otp") THEN sess[c]["otp"] ELSE 0)
    /\ UNCHANGED <<now, twilio_client, store, inflight, started>>

Tick ==
    /\ now < MaxTime
    /\ now' = now + 1
    /\ last' = Op("tick", "a", "GET", NoForm, "page", "not_called", 0)
    /\ UNCHANGED <<twilio_client, sess, store, inflight, started, begun, scen>>

(* The drawn code and the provider's result are consumed only by the SEND  *)
(* OTP block, which runs when the session carries no otp_phase.            *)
Next ==
    \/ \E c \in DOMAIN sess, form \in Forms, otp \in CodeSample, tw \in TwilioResults :
           /\ ~OtpPhase(sess[c])
           /\ StudentReq(c, "POST", form, otp, tw)
    \/ \E c \in DOMAIN sess, form \in Forms :
           /\ OtpPhase(sess[c])
           /\ StudentReq(c, "POST", form, MinCode, "delivered")
    \/ \E c \in DOMAIN sess : StudentReq(c, "GET", NoForm, MinCode, "delivered")
    \/ \E c \in DOMAIN sess, u \in Users, pwOk \in BOOLEAN : LoginReq(c, u, pwOk)
    \/ \E c \in DOMAIN sess : LogoutReq(c)
    \/ Tick

Spec == Init /\ [][Next]_vars

SpecSessions == InitSessions /\ [][Next]_vars

(* ------------------- two requests of one session racing ---------------- *)
(* The browser sends a POST with the cookie it holds now; the server       *)
(* handles it later, against the session that cookie carries.              *)
SendStudent(c, form) ==
    /\ Len(inflight[c]) < MaxInflight
    /\ inflight' = [inflight EXCEPT ![c] = Append(@, [cookie |-> sess[c], form |-> form])]
    /\ last' = Op("send", c, "POST", form, "pending", "not_called", 0)
    /\ UNCHANGED <<now, twilio_client, sess, store, started, begun, scen>>

HandleStudent(c, i, otp, tw) ==
    /\ i \in 1..Len(inflight[c])
    /\ Handled(c, inflight[c][i].cookie, "POST", inflight[c][i].form, otp, tw)
    /\ inflight' = [inflight EXCEPT ![c] =
                       SubSeq(@, 1, i - 1) \o SubSeq(@, i + 1, Len(@))]

RaceForms == {PayloadForm("r1"), [reason |-> "r2", out_date |-> "d2"]}
             \cup {[otp |-> Str(c)] : c \in CodeSample}

NextRace ==
    \/ \E c \in DOMAIN sess, form \in RaceForms : SendStudent(c, form)
    \/ \E c \in DOMAIN sess, i \in 1..MaxInflight, otp \in CodeSample, tw \in TwilioResults :
           HandleStudent(c, i, otp, tw)
    \/ \E c \in DOMAIN sess : StudentReq(c, "GET", NoForm, MinCode, "delivered")
    \/ Tick

(* the race is between requests of one authenticated session *)
InitRace ==
    /\ now = MaxTime - 1
    /\ twilio_client = FALSE
    /\ sess = [c \in {"a"} |-> LoginSession(EmptySession, 1)]
    /\ store = <<>>
    /\ inflight = [c \in {"a"} |-> <<>>]
    /\ started = 0
    /\ begun = [c \in {"a"} |-> NoStart]
    /\ scen = ScenOn(0, 0)
    /\ last = Op("login", "a", "POST", NoForm, "redirect_student", "not_called", 0)

SpecRace == InitRace /\ [][NextRace]_vars

(* ======================================================================= *)
(* Properties.  In an action formula, c is the browser whose request the   *)
(* step handles (last'.client); "the subject's challenge" is the challenge *)
(* held by the session that makes the request, which is where the code     *)
(* keeps it.  C5 is the property that counts challenges per user.          *)
(* ======================================================================= *)

(* the step handles a POST to /student sent by an authenticated session *)
PostStep ==
    /\ last'.op = "student"
    /\ last'.method = "POST"
    /\ Has(sess[last'.client], "user_id")

(* C1: for every challenge that was started, submitting the challenge's    *)
(* code before expiry persists exactly one new request and leaves no       *)
(* active challenge; a code submitted without an active challenge persists *)
(* nothing; so the persisted requests never outnumber the challenges       *)
(* started.                                                                *)
C1_ResolvesExactlyOnce ==
    [][LET c == last'.client IN
       /\ (PostStep /\ OtpPhase(sess[c]) /\ now <= sess[c]["otp_expiry"]
             /\ Get(last'.form, "otp") = Str(sess[c]["otp"]))
          => (Len(store') = Len(store) + 1 /\ ~OtpPhase(sess'[c]))
       /\ (PostStep /\ ~OtpPhase(sess[c])) => store' = store
       /\ Len(store') <= started']_vars

(* C2: a POST whose code differs from the code of the active, unexpired    *)
(* challenge answers "Invalid OTP" and changes neither the session (code,  *)
(* payload, expiry, otp_phase) nor the request table.                      *)
C2_WrongCodeChangesNothing ==
    [][LET c == last'.client IN
       (PostStep /\ OtpPhase(sess[c]) /\ now <= sess[c]["otp_expiry"]
          /\ Get(last'.form, "otp") # Str(sess[c]["otp"]))
       => (last'.outcome = "invalid" /\ sess'[c] = sess[c] /\ store' = store)]_vars

C2_Witness ==
    /\ last.op = "student" /\ last.outcome = "invalid"
    /\ OtpPhase(sess[last.client])
    /\ Len(Get(last.form, "otp")) = 6
    /\ Has(sess[last.client], "pending")

(* C3: a POST made with now > otp_expiry answers "OTP expired" whatever    *)
(* code it carries: the table is unchanged, the session has no otp_phase   *)
(* afterwards and the SEND OTP block does not run in the same request.     *)
C3_ExpiredClears ==
    [][LET c == last'.client IN
       (PostStep /\ OtpPhase(sess[c]) /\ now > sess[c]["otp_expiry"])
       => /\ last'.outcome = "expired"
          /\ store' = store
          /\ ~OtpPhase(sess'[c])
          /\ started' = started]_vars

(* an expired answer given to the correct code *)
C3_Witness ==
    /\ last.op = "student" /\ last.outcome = "expired"
    /\ Get(last.form, "otp") = Str(sess[last.client]["otp"])
    /\ ~OtpPhase(sess[last.client])

(* C4: right after a POST with reason, out_date and out_time made with no  *)
(* active challenge, the session holds an active challenge with the code   *)
(* drawn in that request (in 100000..999999), the payload of the form and  *)
(* otp_expiry = now + 5 minutes.                                           *)
C4_StartStoresChallenge ==
    [][LET c == last'.client IN
       (PostStep /\ ~OtpPhase(sess[c]) /\ PayloadFields \subseteq DOMAIN last'.form)
       => /\ OtpPhase(sess'[c])
          /\ sess'[c]["otp"] = last'.otp
          /\ last'.otp \in 100000..999999
          /\ DOMAIN sess'[c]["pending"] = PayloadFields
          /\ \A k \in PayloadFields : sess'[c]["pending"][k] = last'.form[k]
          /\ sess'[c]["otp_expiry"] = now + 5
          /\ started' = started + 1]_vars

C4_Witness ==
    /\ last.op = "student" /\ last.outcome = "otp_sent"
    /\ OtpPhase(sess[last.client])
    /\ sess[last.client]["pending"]["reason"] = "r2"
    /\ sess[last.client]["otp_expiry"] = now + 5

(* C5: in every reachable state each user has at most one active           *)
(* challenge, counted over all the sessions the user is logged in through. *)
C5_OneChallengePerSubject ==
    \A u \in Users :
        Cardinality({b \in DOMAIN sess :
                        Has(sess[b], "user_id") /\ sess[b]["user_id"] = u
                        /\ OtpPhase(sess[b])}) <= 1

(* C6: the table changes only in a step that answers "Gate pass request    *)
(* submitted", which appends one row and keeps the rows already stored.    *)
C6_StoreAppendOnly ==
    [][/\ store' # store
          => /\ last'.op = "student" /\ last'.outcome = "submitted"
             /\ Len(store') = Len(store) + 1
             /\ SubSeq(store', 1, Len(store)) = store
       /\ (last'.op = "student" /\ last'.outcome = "submitted")
          => Len(store') = Len(store) + 1]_vars

(* a second row was appended behind a first one *)
C6_Witness ==
    /\ last.op = "student" /\ last.outcome = "submitted"
    /\ Len(store) = 2

(* C7: the row persisted by a successful resolve has status Pending, the   *)
(* id and name of the user the session is logged in as, and the reason,    *)
(* out_date and out_time that were passed to the SEND OTP run which        *)
(* started the challenge being resolved.                                   *)
C7_RowFromLatestStart ==
    [][LET c == last'.client IN
       (last'.op = "student" /\ last'.outcome = "submitted")
       => LET row == store'[Len(store')] IN
          /\ row.status = "Pending"
          /\ row.student_id = sess[c]["user_id"]
          /\ row.student_name = UserName(sess[c]["user_id"])
          /\ DOMAIN begun[c] = PayloadFields
          /\ \A k \in PayloadFields : row[k] = begun[c][k]]_vars

(* C8: a POST that starts a challenge answers "OTP sent" and leaves the    *)
(* same session whether the provider is missing, delivers or raises, and   *)
(* the challenge it leaves is resolved by its code.                        *)
C8_NotifierNeverBlocksStart ==
    [][LET c == last'.client IN
       (PostStep /\ ~OtpPhase(sess[c]) /\ PayloadFields \subseteq DOMAIN last'.form)
       => /\ last'.outcome = "otp_sent"
          /\ last'.sms \in {"no_provider", "sent", "error_logged"}
          /\ \A cfg \in BOOLEAN, tw \in TwilioResults :
                Student(sess[c], "POST", last'.form, now, store, last'.otp, cfg, tw).sess
                    = sess'[c]
          /\ Student(sess'[c], "POST", [otp |-> Str(last'.otp)], now', store',
                     MinCode, twilio_client, "delivered").outcome = "submitted"]_vars

(* the provider raised and the challenge is there *)
C8_Witness ==
    /\ last.op = "student" /\ last.outcome = "otp_sent"
    /\ last.sms = "error_logged"
    /\ OtpPhase(sess[last.client])
    /\ sess[last.client]["otp"] = last.otp

(* C9: however two POSTs of one session that carry the code of the same    *)
(* challenge are interleaved, one challenge persists at most one row: the  *)
(* rows never outnumber the challenges started.                            *)
C9_OneRowPerChallenge == Len(store) <= started

(* C10: a POST without reason, out_date or out_time, made with no active   *)
(* challenge, starts nothing: the session is left as it was (no otp_phase, *)
(* no code, no expiry, no payload) and send_sms is not called.             *)
C10_MissingFieldStartsNothing ==
    [][LET c == last'.client IN
       (PostStep /\ ~OtpPhase(sess[c]) /\ ~(PayloadFields \subseteq DOMAIN last'.form))
       => /\ ~OtpPhase(sess'[c])
          /\ sess'[c] = sess[c]
          /\ last'.sms = "not_called"]_vars

(* C11: the scenario is a behaviour of the program: each request of the    *)
(* scenario, made at its time after the requests before it, is answered as *)
(* the scenario says (start: challenge active; correct code at T0+1: one   *)
(* Pending row; the same code at T0+2: nothing persisted and no active     *)
(* challenge; start at T0+3: challenge active; wrong code at T0+4: Invalid *)
(* OTP, still active; correct code at T0+6: OTP expired).                  *)
C11_ScenarioIsFollowed == scen.state # "diverged"

(* C12: a GET of /student changes neither the session (otp_phase, code,    *)
(* payload, expiry) nor the table, also after the expiry has passed.       *)
C12_GetHasNoEffect ==
    [][(last'.op = "student" /\ last'.method = "GET")
       => /\ sess' = sess
          /\ store' = store
          /\ started' = started
          /\ last'.outcome \in {"page", "redirect_login"}]_vars

(* a page rendered while an expired challenge is still marked active *)
C12_Witness ==
    /\ last.op = "student" /\ last.method = "GET" /\ last.outcome = "page"
    /\ OtpPhase(sess[last.client])
    /\ now > sess[last.client]["otp_expiry"]

(* C13: after a POST answered "OTP expired" the session holds nothing of   *)
(* the expired challenge: no otp_phase, no otp, no otp_expiry, no pending. *)
C13_ExpiryClearsAll ==
    [][LET c == last'.client IN
       (last'.op = "student" /\ last'.outcome = "expired")
       => /\ ~Has(sess'[c], "otp_phase")
          /\ ~Has(sess'[c], "otp")
          /\ ~Has(sess'[c], "otp_expiry")
          /\ ~Has(sess'[c], "pending")]_vars

(* C14: a POST runs the SEND OTP block exactly when the session has no     *)
(* otp_phase and the verify block exactly when it has; so a POST made      *)
(* while a challenge is active draws no code and leaves the stored code,   *)
(* payload and expiry as they are or removes them, whatever its fields.    *)
C14_DispatchByPhase ==
    [][LET c == last'.client IN
       PostStep =>
         IF Has(sess[c], "otp_phase")
         THEN /\ last'.outcome \in {"expired", "invalid", "submitted", "error500"}
              /\ started' = started
              /\ last'.otp = 0
              /\ \A k \in {"otp", "otp_expiry", "pending"} :
                    Has(sess'[c], k) => (Has(sess[c], k) /\ sess'[c][k] = sess[c][k])
         ELSE /\ last'.outcome \in {"otp_sent", "badrequest400"}
              /\ started' = started + 1
              /\ store' = store]_vars

(* a form with reason, out_date and out_time posted while a challenge is active *)
C14_Witness ==
    /\ last.op = "student" /\ last.method = "POST"
    /\ PayloadFields \subseteq DOMAIN last.form
    /\ last.outcome = "invalid"
    /\ OtpPhase(sess[last.client])
    /\ Has(sess[last.client], "pending")
    /\ sess[last.client]["pending"]["reason"] # last.form["reason"]

(* C15: otp_expiry is the creation time + 5 minutes and no step changes it *)
(* while the challenge stays active; the test is strict: the correct code  *)
(* posted at now = otp_expiry succeeds, and a POST is answered "OTP        *)
(* expired" only when now > otp_expiry.                                    *)
C15_ExpiryFixedAndStrict ==
    [][LET c == last'.client IN
       /\ (last'.op = "student" /\ last'.outcome \in {"otp_sent", "badrequest400"})
          => sess'[c]["otp_expiry"] = now + 5
       /\ \A b \in DOMAIN sess :
             (OtpPhase(sess[b]) /\ OtpPhase(sess'[b]))
             => sess'[b]["otp_expiry"] = sess[b]["otp_expiry"]
       /\ (PostStep /\ OtpPhase(sess[c]))
          => (last'.outcome = "expired" <=> now > sess[c]["otp_expiry"])
       /\ (PostStep /\ OtpPhase(sess[c]) /\ now = sess[c]["otp_expiry"]
             /\ Get(last'.form, "otp") = Str(sess[c]["otp"]))
          => (last'.outcome = "submitted" /\ Len(store') = Len(store) + 1)]_vars

(* C16: there is no retry limit: right after a POST answered "Invalid OTP" *)
(* (however many came before it), the correct code posted before expiry    *)
(* succeeds and persists the request.                                      *)
C16_RetryThenSucceed ==
    [][LET c == last'.client IN
       (PostStep /\ last.op = "student" /\ last.outcome = "invalid" /\ last.client = c
          /\ OtpPhase(sess[c]) /\ now <= sess[c]["otp_expiry"]
          /\ Get(last'.form, "otp") = Str(sess[c]["otp"]))
       => (last'.outcome = "submitted" /\ Len(store') = Len(store) + 1)]_vars

(* C17: a stored code is in 100000..999999, and the verify block compares  *)
(* strings: on an unexpired challenge a POST succeeds only if its otp      *)
(* field is the six decimal digits of the code; a missing field, an empty  *)
(* string and the code behind a leading zero are answered "Invalid OTP".   *)
C17_CodeRangeAndExactCompare ==
    [][LET c == last'.client IN
       /\ \A b \in DOMAIN sess :
             Has(sess[b], "otp") => sess[b]["otp"] \in 100000..999999
       /\ (PostStep /\ OtpPhase(sess[c]) /\ now <= sess[c]["otp_expiry"])
          => LET v == Get(last'.form, "otp")
                 digits == Str(sess[c]["otp"])
             IN  /\ last'.outcome = "submitted"
                    => (Len(v) = 6 /\ \A i \in 1..6 : v[i] = digits[i])
                 /\ (~Has(last'.form, "otp") \/ v = <<>> \/ v = <<"0">> \o digits
                       \/ Len(v) # 6)
                    => (last'.outcome = "invalid" /\ store' = store)]_vars

(* the code of the challenge behind a leading zero was refused *)
C17_Witness ==
    /\ last.op = "student" /\ last.outcome = "invalid"
    /\ OtpPhase(sess[last.client])
    /\ Get(last.form, "otp") = <<"0">> \o Str(sess[last.client]["otp"])

(* C18: whenever a session has an active challenge, it holds a code, an    *)
(* expiry and a payload with reason, out_date and out_time, the payload    *)
(* being the one passed to the SEND OTP run that stored the code.          *)
C18_ActiveChallengeComplete ==
    \A b \in DOMAIN sess :
        OtpPhase(sess[b])
        => /\ Has(sess[b], "otp")
           /\ Has(sess[b], "otp_expiry")
           /\ Has(sess[b], "pending")
           /\ DOMAIN sess[b]["pending"] = PayloadFields
           /\ sess[b]["pending"] = begun[b]

(* C19: a logout leaves the session without otp_phase, otp, otp_expiry and *)
(* pending; a login stores none of them; and a POST made by a session      *)
(* without otp_phase persists nothing: a code posted after logging in      *)
(* again cannot resolve the challenge started before the logout.           *)
C19_LogoutDiscardsChallenge ==
    [][LET c == last'.client IN
       /\ last'.op = "logout"
          => \A k \in {"otp_phase", "otp", "otp_expiry", "pending", "user_id"} :
                ~Has(sess'[c], k)
       /\ last'.op = "login"
          => \A k \in {"otp_phase", "otp", "otp_expiry", "pending"} :
                Has(sess'[c], k) => (Has(sess[c], k) /\ sess'[c][k] = sess[c][k])
       /\ (last'.op = "student" /\ ~Has(sess[c], "otp_phase"))
          => store' = store]_vars

(* a logout of a session that held an active challenge *)
C19_Witness ==
    /\ last.op = "logout"
    /\ last.otp # 0
    /\ sess[last.client] = EmptySession
    /\ started >= 1 /\ store = <<>> /\ now <= 5

(* C20: a request to /student by a session without user_id is redirected   *)
(* to the login page: the session, the table and the count of started      *)
(* challenges are unchanged and send_sms is not called.                    *)
C20_UnauthenticatedDoesNothing ==
    [][LET c == last'.client IN
       (last'.op = "student" /\ ~Has(sess[c], "user_id"))
       => /\ last'.outcome = "redirect_login"
          /\ sess' = sess
          /\ store' = store
          /\ started' = started
          /\ last'.sms = "not_called"]_vars

C20_Witness ==
    /\ last.op = "student" /\ last.method = "POST"
    /\ last.outcome = "redirect_login"
    /\ PayloadFields \subseteq DOMAIN last.form
    /\ ~Has(sess[last.client], "user_id")

====
